---------------------------- MODULE Spec2Model ----------------------------
(***************************************************************************)
(* A model of the hygrometry library (src/hygrometry/__init__.py).         *)
(*                                                                         *)
(* The library computes with IEEE doubles.  The model computes with        *)
(* decimal fixed-point numbers: an integer n stands for the real number    *)
(* n / Scale (six decimals), so 0.0005 is 500 and 243.5 is 243500000.      *)
(* Products and quotients are formed exactly and then truncated toward     *)
(* zero to six decimals, where a double rounds to 53 bits.  exp and log    *)
(* are computed (Taylor series on a table of e^q; bisection on exp), not   *)
(* assumed.  A Python exception is an outcome of the operation that        *)
(* raises it: the name of the exception in the field st.                   *)
(***************************************************************************)
EXTENDS Integers, Sequences, FiniteSets, TLC

VARIABLES
    pc,            \* "idle", "loop" (at the while test, line 103), "done", "raised"
    rh,            \* calc_sWB: the argument RH as the caller passed it
    Ctemp,         \* calc_wb: Ctemp (= calc_sWB's Tc)
    MBpressure,    \* calc_wb: MBpressure (= calc_sWB's P)
    E2,            \* calc_wb: E2, the actual vapor pressure V of Td
    Edifference,   \* calc_wb: Edifference
    Twguess,       \* calc_wb: Twguess
    previoussign,  \* calc_wb: previoussign
    incr,          \* calc_wb: incr
    count,         \* calc_wb: count
    exc,           \* the exception that ended the call, or "none"
    hist,          \* history of the loop, read by the properties only
    call,          \* the closed-form function called and its arguments
    ret            \* what that call returned or raised

vars == <<pc, rh, Ctemp, MBpressure, E2, Edifference, Twguess, previoussign,
          incr, count, exc, hist, call, ret>>

solverVars == <<pc, rh, Ctemp, MBpressure, E2, Edifference, Twguess,
                previoussign, incr, count, exc, hist>>

-----------------------------------------------------------------------------
(* Fixed-point arithmetic.                                                 *)

Scale == 10^6

IntMax == 2^30 + (2^30 - 1)

Abs(x) == IF x < 0 THEN -x ELSE x

Sgn(x) == IF x < 0 THEN -1 ELSE 1

\* The digit base of the long multiplication below: the largest of 1000,
\* 10, 2 for which c * (2 * base - 1) still fits a machine integer.
Base(c) == IF c <= 10^6 THEN 1000 ELSE IF c <= 10^8 THEN 10 ELSE 2

\* <<floor(a*b/c), (a*b) mod c>> for 0 <= a < c, b >= 0, digit by digit of b
\* in base B, so that no intermediate product leaves the integer range: h is
\* the pair for b without its last digit d.  Each level evaluates its
\* arguments once.
RECURSIVE MulDivR(_, _, _, _)
MulDivR(a, b, c, B) ==
    CHOOSE r \in
        {IF y = 0 THEN <<0, 0>>
         ELSE CHOOSE s \in
                  {CHOOSE u \in {<<h[1] * w + t \div z, t % z>> :
                                    t \in {h[2] * w + x * d}} : TRUE :
                     h \in {MulDivR(x, y \div w, z, w)}, d \in {y % w}} : TRUE :
           x \in {a}, y \in {b}, z \in {c}, w \in {B}} : TRUE

\* floor(a*b/c), exactly, for a >= 0, b >= 0, c > 0; the arguments are
\* evaluated once.
MulDiv(a, b, c) ==
    CHOOSE r \in {(x \div z) * y + MulDivR(x % z, y, z, Base(z))[1] :
                     x \in {a}, y \in {b}, z \in {c}} : TRUE

\* x * y and x / y of two fixed-point numbers, truncated toward zero.
FMul(x, y) == Sgn(x) * Sgn(y) * MulDiv(Abs(x), Abs(y), Scale)

FDiv(x, y) == Sgn(x) * Sgn(y) * MulDiv(Abs(x), Scale, Abs(y))

-----------------------------------------------------------------------------
(* math.exp, math.log and math.sqrt on fixed-point numbers.                *)

\* e^q for q = -19 .. 0 with eight decimals (entry q + 20), and for
\* q = 0 .. 5 with six decimals (entry q + 1).
ENeg == <<1, 2, 4, 11, 31, 83, 226, 614, 1670, 4540, 12341, 33546, 91188,
          247875, 673795, 1831564, 4978707, 13533528, 36787944, 100000000>>

EPos == <<1000000, 2718282, 7389056, 20085537, 54598150, 148413159>>

\* The terms n .. 14 of the Taylor series of e^f, 0 <= f < 1, with eight
\* decimals; t is term n - 1 and tn is term n.
RECURSIVE ExpSeries(_, _, _)
ExpSeries(f8, t, n) ==
    IF n > 14 THEN 0
    ELSE CHOOSE s \in {tn + ExpSeries(f8, tn, n + 1) :
                          tn \in {MulDiv(t, f8, 10^8) \div n}} : TRUE

\* e^v for -20 <= v < 6: v = q + f with q an integer and 0 <= f < 1,
\* e^v = e^q * e^f.  Below -20 the result is 0 to six decimals.
ExpOf(v) ==
    LET q  == v \div Scale
        f8 == (v - q * Scale) * 100
        ef == 10^8 + ExpSeries(f8, 10^8, 1)
    IN  IF q < -19 THEN 0
        ELSE IF q < 0 THEN MulDiv(ef, ENeg[q + 20], 10^8) \div 100
        ELSE MulDiv(ef, EPos[q + 1], 10^8)

\* e^x, with x evaluated once.
Exp(x) == CHOOSE r \in {ExpOf(v) : v \in {x}} : TRUE

\* The largest argument whose exponential, times 6.112, the model represents.
ExpMaxArg == 58 * 10^5

\* math.exp raises OverflowError above 709.782712893.
ExpOverflowArg == 709 * Scale + 782712

\* math.exp(x).  st = "range": the result is finite but beyond the range of
\* the fixed-point numbers of this model.
MathExp(x) ==
    IF x > ExpOverflowArg THEN [st |-> "OverflowError", v |-> 0]
    ELSE IF x > ExpMaxArg THEN [st |-> "range", v |-> 0]
    ELSE [st |-> "ok", v |-> Exp(x)]

\* The largest x in lo .. hi with Exp(x) <= y, given Exp(lo) <= y.
RECURSIVE LnSearch(_, _, _)
LnSearch(y, lo, hi) ==
    IF lo >= hi THEN lo
    ELSE LET mid == (lo + hi + 1) \div 2
         IN  IF Exp(mid) <= y THEN LnSearch(y, mid, hi)
             ELSE LnSearch(y, lo, mid - 1)

\* math.log(y): ValueError (math domain error) for y <= 0.
MathLog(y) ==
    IF y <= 0 THEN [st |-> "ValueError", v |-> 0]
    ELSE [st |-> "ok", v |-> LnSearch(y, -20 * Scale, ExpMaxArg)]

\* The largest r in lo .. hi with r * r <= y.
RECURSIVE SqrtSearch(_, _, _)
SqrtSearch(y, lo, hi) ==
    IF lo >= hi THEN lo
    ELSE LET mid == (lo + hi + 1) \div 2
         IN  IF FMul(mid, mid) <= y THEN SqrtSearch(y, mid, hi)
             ELSE SqrtSearch(y, lo, mid - 1)

\* math.sqrt(y) for y < 1000: ValueError for y < 0.
MathSqrt(y) ==
    IF y < 0 THEN [st |-> "ValueError", v |-> 0]
    ELSE [st |-> "ok", v |-> SqrtSearch(y, 0, 32 * Scale)]

-----------------------------------------------------------------------------
(* Td and the wet-bulb solver calc_sWB / calc_wb.                          *)

\* 17.67 * T / (T + 243.5), the argument of exp in lines 74 and 104.  The
\* quotient is formed from the exact product.  A quotient of magnitude 1767
\* or more (|T| >= 100 * |T + 243.5|) is reported as -IntMax or IntMax: exp
\* underflows to 0 for the first and raises OverflowError for the second.
MagnusArg(T) ==
    LET den == T + 243500000
    IN  IF den = 0 THEN [st |-> "ZeroDivisionError", v |-> 0]
        ELSE IF Abs(T) \div Abs(den) >= 100
             THEN [st |-> "ok", v |-> Sgn(T) * Sgn(den) * IntMax]
        ELSE [st |-> "ok",
              v  |-> Sgn(T) * Sgn(den) * MulDiv(17670000, Abs(T), Abs(den))]

\* 6.112 * math.exp(17.67 * T / (T + 243.5)): the saturation vapor pressure
\* at T (es in Td, Ewguess in calc_wb).
Magnus(T) ==
    LET a == MagnusArg(T)
        e == MathExp(a.v)
    IN  IF a.st # "ok" THEN [st |-> a.st, v |-> 0]
        ELSE IF e.st # "ok" THEN [st |-> e.st, v |-> 0]
        ELSE [st |-> "ok", v |-> FMul(6112000, e.v)]

\* The dew point of Td from a vapor pressure V # 0 (lines 77 and 78).
DewOfV(V) ==
    LET l == MathLog(FDiv(V, 6112000))
        d == 17670000 - l.v
    IN  IF l.st # "ok" THEN [st |-> l.st, v |-> 0]
        ELSE IF d = 0 THEN [st |-> "ZeroDivisionError", v |-> 0]
        ELSE [st |-> "ok",
              v  |-> Sgn(l.v) * Sgn(d) * MulDiv(243500000, Abs(l.v), Abs(d))]

\* Td(Tc, RH).  On st = "ok" the function returns [es, V, Td]; nan tells
\* that Td is float('nan').
Td(Tc, RH) ==
    LET es == Magnus(Tc)
        V  == Sgn(RH) * MulDiv(es.v, Abs(RH), 100 * Scale)
        dp == DewOfV(V)
    IN  IF es.st # "ok"
        THEN [st |-> es.st, es |-> 0, V |-> 0, Td |-> 0, nan |-> FALSE]
        ELSE IF V # 0
        THEN IF dp.st # "ok"
             THEN [st |-> dp.st, es |-> 0, V |-> 0, Td |-> 0, nan |-> FALSE]
             ELSE [st |-> "ok", es |-> es.v, V |-> V, Td |-> dp.v, nan |-> FALSE]
        ELSE [st |-> "ok", es |-> es.v, V |-> V, Td |-> 0, nan |-> TRUE]

\* 0.0005, the convergence tolerance of calc_wb.
Tolerance == 500

\* Eguess of calc_wb at the guess Tw (lines 104 and 105).  The product
\* MBpressure * (Ctemp - Twguess) * 0.00066 is formed exactly, then truncated.
Eguess(Tw, Tc, P) ==
    LET Ew  == Magnus(Tw)
        d   == Tc - Tw
        t1  == Sgn(d) * (MulDiv(MulDiv(P, 660, 1000), Abs(d), 5 * 10^8) \div 2)
        fac == Scale + Sgn(Tw) * MulDiv(1150, Abs(Tw), Scale)
    IN  IF Ew.st # "ok" THEN [st |-> Ew.st, v |-> 0]
        ELSE [st |-> "ok", v |-> Ew.v - FMul(t1, fac)]

\* cursign of calc_wb (lines 115, 116 and 123).
Cursign(Ediff) == IF Ediff < 0 THEN -1 ELSE 1

\* A step rule that halves the increment on a sign change.
HalvedIncr(inc, cursign, prevsign) ==
    IF cursign # prevsign THEN inc \div 2 ELSE inc

\* incr after the sign test of one iteration (lines 117 to 128).
NextIncr(inc, cursign, prevsign) ==
    IF cursign # prevsign THEN inc \div 10 ELSE inc

\* A sign rule that keeps the direction of the first step.
KeptSign(cursign, prevsign) == prevsign

\* previoussign after the sign test of one iteration (lines 117 to 128).
NextSign(cursign, prevsign) ==
    IF cursign # prevsign THEN cursign ELSE prevsign

\* Twguess at the end of one iteration (line 130).
NextGuess(Tw, inc, sign) == Tw + inc * sign

\* The RH that calc_sWB passes on (lines 158 to 160).
ClampRH(RH) == IF RH <= 0 THEN 0 ELSE RH

\* calc_wb run to its return, as a function of its arguments: <<"ok", the
\* wet bulb returned>> or <<the exception raised, the guess it was raised at>>.
RECURSIVE calc_wb(_, _, _, _, _, _, _)
calc_wb(Ediff, Tw, Tc, P, E, prevsign, inc) ==
    IF ~(Abs(Ediff) > Tolerance) THEN <<"ok", Tw>>
    ELSE LET g  == Eguess(Tw, Tc, P)
             Ed == E - g.v
             cs == Cursign(Ed)
             ni == NextIncr(inc, cs, prevsign)
             ns == NextSign(cs, prevsign)
         IN  IF g.st # "ok" THEN <<g.st, Tw>>
             ELSE IF Abs(Ed) < Tolerance THEN <<"ok", Tw>>
             ELSE calc_wb(Ed, NextGuess(Tw, ni, ns), Tc, P, E, ns, ni)

\* calc_sWB(Tc, RH, P) as a function of its arguments (lines 158 to 162).
WetBulb(Tc, RH, P) ==
    LET r == Td(Tc, ClampRH(RH))
    IN  IF r.st # "ok" THEN <<r.st, 0>>
        ELSE calc_wb(Scale, 0, Tc, P, r.V, 1, 10 * Scale)

-----------------------------------------------------------------------------
(* The inputs of the model.                                                *)

\* The number of dry-bulb temperatures of WarmTc that the solver is run on.
NWarm == 3

\* The cap on count: no run of the model reaches it.
MaxCount == 300

WarmTc == <<19999900, 25000000, 40000000, 10000000, 30500000>>

\* <<Tc, RH, P>> of the calls of calc_sWB: a grid of ordinary inputs (RH below,
\* at and above 0, up to 100; pressures 3 and 1000 hPa), and single inputs
\* in the cold: a low pressure, a residual that meets the tolerance exactly
\* (Tc = -80, RH = 53.227316), and a dry-bulb temperature between -243.5
\* and -243.
SolverInputs ==
    ({WarmTc[i] : i \in 1 .. NWarm}
        \X {-5000000, 0, 50000000, 99999900, 100000000}
        \X {3000000, 1000000000})
    \cup ({-80000000} \X {-5000000, 0, 53227316} \X {1000000000})
    \cup ({-95000000} \X {50000000, 100000000} \X {50000})
    \cup ({-243200000} \X {-5000000, 0, 50000000} \X {1000000000})

-----------------------------------------------------------------------------
(* The state machine of one call of calc_sWB.                              *)

NoHist ==
    [iters |-> 0, flips |-> 0, run |-> 0, evalAt |-> 0, bracketed |-> FALSE,
     lo |-> 0, hi |-> 0, exit |-> "none"]

NoCall == [fn |-> "none"]

Init ==
    /\ pc = "idle"
    /\ rh = 0
    /\ Ctemp = 0
    /\ MBpressure = 0
    /\ E2 = 0
    /\ Edifference = 0
    /\ Twguess = 0
    /\ previoussign = 1
    /\ incr = 0
    /\ count = 0
    /\ exc = "none"
    /\ hist = NoHist
    /\ call = NoCall
    /\ ret = NoCall

Min(a, b) == IF a < b THEN a ELSE b

Max(a, b) == IF a < b THEN b ELSE a

\* calc_sWB(Tc, RH, P) up to the first test of the while loop of calc_wb:
\* the clamp of RH, Td, and calc_wb(1., 0., Tc, P, V, 1, 10.).
calc_sWB(Tc, RH, P) ==
    /\ pc = "idle"
    /\ call = NoCall
    /\ LET r == Td(Tc, ClampRH(RH))
       IN  /\ rh' = RH
           /\ Ctemp' = Tc
           /\ MBpressure' = P
           /\ IF r.st # "ok"
              THEN /\ pc' = "raised"
                   /\ exc' = r.st
                   /\ UNCHANGED <<E2, Edifference, incr>>
              ELSE /\ pc' = "loop"
                   /\ exc' = "none"
                   /\ E2' = r.V
                   /\ Edifference' = Scale
                   /\ incr' = 10 * Scale
    /\ Twguess' = 0
    /\ previoussign' = 1
    /\ count' = 0
    /\ UNCHANGED <<hist, call, ret>>

\* One iteration of the while loop of calc_wb (lines 103 to 131): the
\* residual at the guess, then the break, or the sign test and the step.
LoopIter ==
    /\ pc = "loop"
    /\ Abs(Edifference) > Tolerance
    /\ count < MaxCount
    /\ \E g \in {Eguess(Twguess, Ctemp, MBpressure)} :
       LET Ed   == E2 - g.v
           cs   == Cursign(Ed)
           flip == cs # previoussign
           over == flip /\ hist.iters >= 1
           ni   == NextIncr(incr, cs, previoussign)
           ns   == NextSign(cs, previoussign)
           h    == [hist EXCEPT !.iters = @ + 1, !.evalAt = Twguess]
       IN  IF g.st # "ok"
           THEN /\ pc' = "raised"
                /\ exc' = g.st
                /\ UNCHANGED <<Edifference, Twguess, previoussign, incr,
                               count, hist>>
           ELSE /\ Edifference' = Ed
                /\ exc' = "none"
                /\ IF Abs(Ed) < Tolerance
                   THEN /\ pc' = "done"
                        /\ hist' = [h EXCEPT !.exit = "break"]
                        /\ UNCHANGED <<Twguess, previoussign, incr, count>>
                   ELSE /\ pc' = "loop"
                        /\ incr' = ni
                        /\ previoussign' = ns
                        /\ Twguess' = NextGuess(Twguess, ni, ns)
                        /\ count' = count + 1
                        /\ hist' =
                             [h EXCEPT
                                !.flips = IF flip THEN @ + 1 ELSE @,
                                !.run = IF flip THEN 1 ELSE @ + 1,
                                !.bracketed = @ \/ over,
                                !.lo = IF over THEN Min(hist.evalAt, Twguess)
                                       ELSE @,
                                !.hi = IF over THEN Max(hist.evalAt, Twguess)
                                       ELSE @]
    /\ UNCHANGED <<rh, Ctemp, MBpressure, E2, call, ret>>

\* The while test of line 103 fails: calc_wb returns Twguess (lines 134 to 138).
LoopExit ==
    /\ pc = "loop"
    /\ ~(Abs(Edifference) > Tolerance)
    /\ pc' = "done"
    /\ hist' = [hist EXCEPT !.exit = "while"]
    /\ UNCHANGED <<rh, Ctemp, MBpressure, E2, Edifference, Twguess,
                   previoussign, incr, count, exc, call, ret>>

Next ==
    \/ \E in \in SolverInputs : calc_sWB(in[1], in[2], in[3])
    \/ LoopIter
    \/ LoopExit

Spec == Init /\ [][Next]_vars

\* The loop runs on: an iteration that can be taken is taken.
FairSpec == Spec /\ WF_vars(LoopIter) /\ WF_vars(LoopExit)

-----------------------------------------------------------------------------
(* The closed-form functions.                                              *)

\* A conversion with 5/9 cut to 0.555555.
conv_F2C_cut(f) == FMul(f - 32000000, 555555)

\* conv_F2C(f) = (f - 32.0) * 0.555556
conv_F2C(f) == FMul(f - 32000000, 555556)

\* conv_C2F(c) = c*1.8+32.0
conv_C2F(c) == FMul(c, 1800000) + 32000000

\* m*t/(Tn+t) with Tn = 243.12 and m = 17.62 (lines 203, 228 and 254), formed
\* as MagnusArg forms its quotient.
SensirionArg(t) ==
    LET den == 243120000 + t
    IN  IF den = 0 THEN [st |-> "ZeroDivisionError", v |-> 0]
        ELSE IF Abs(t) \div Abs(den) >= 100
             THEN [st |-> "ok", v |-> Sgn(t) * Sgn(den) * IntMax]
        ELSE [st |-> "ok",
              v  |-> Sgn(t) * Sgn(den) * MulDiv(17620000, Abs(t), Abs(den))]

\* dew(Tc, RH): the logarithm is evaluated first, then the quotient.
dew(Tc, RH) ==
    LET l == MathLog(FDiv(RH, 100 * Scale))
        q == SensirionArg(Tc)
        H == l.v + q.v
        d == 17620000 - H
    IN  IF l.st # "ok" THEN [st |-> l.st, v |-> 0]
        ELSE IF q.st # "ok" THEN [st |-> q.st, v |-> 0]
        ELSE IF d = 0 THEN [st |-> "ZeroDivisionError", v |-> 0]
        ELSE [st |-> "ok",
              v  |-> Sgn(H) * Sgn(d) * MulDiv(243120000, Abs(H), Abs(d))]

\* e of mixing_ratio (line 254): RH/100.0*A*math.exp(m*t/(Tn+t)), A = 6.112.
VaporPressure(t, RH) ==
    LET q == SensirionArg(t)
        x == MathExp(q.v)
    IN  IF q.st # "ok" THEN [st |-> q.st, v |-> 0]
        ELSE IF x.st # "ok" THEN [st |-> x.st, v |-> 0]
        ELSE [st |-> "ok",
              v  |-> FMul(FMul(FDiv(RH, 100 * Scale), 6112000), x.v)]

\* A quotient that yields an infinity, and no exception, on a zero divisor.
InfQuotient(e, p) ==
    LET d == p - e
    IN  IF d = 0 \/ Abs(e) \div Abs(d) >= 3
        THEN [st |-> "ok", v |-> Sgn(e) * Sgn(d) * IntMax]
        ELSE [st |-> "ok",
              v  |-> Sgn(e) * Sgn(d) * MulDiv(Abs(e), 622 * Scale, Abs(d))]

\* 622.0*e/(p-e) (line 255): float division raises ZeroDivisionError on a
\* zero divisor and returns a value, of either sign, otherwise.  A quotient
\* of magnitude 1866 or more (|e| >= 3 * |p - e|) is reported as -IntMax or
\* IntMax.
MixingQuotient(e, p) ==
    LET d == p - e
    IN  IF d = 0 THEN [st |-> "ZeroDivisionError", v |-> 0]
        ELSE IF Abs(e) \div Abs(d) >= 3
             THEN [st |-> "ok", v |-> Sgn(e) * Sgn(d) * IntMax]
        ELSE [st |-> "ok",
              v  |-> Sgn(e) * Sgn(d) * MulDiv(Abs(e), 622 * Scale, Abs(d))]

\* mixing_ratio(t, RH, p)
mixing_ratio(t, RH, p) ==
    LET e == VaporPressure(t, RH)
    IN  IF e.st # "ok" THEN e ELSE MixingQuotient(e.v, p)

\* floor(a*b/10^e) for e <= 9.
MulDivP10(a, b, e) ==
    IF e <= 8 THEN MulDiv(a, b, 10^e) ELSE MulDiv(a, b, 5 * 10^8) \div 2

\* HI of line 276, the regression in tF and RH.  With g = tF/100 and
\* h = RH/100 the monomials g, h, gh, gg, ... stay below 2 and are formed
\* with eight decimals; each term is the exact product of its coefficient
\* and its monomial, truncated to five decimals.
Regression(tF, RH) ==
    LET ag   == Abs(tF)
        sg   == Sgn(tF)
        ah   == Abs(RH)
        sh   == Sgn(RH)
        gg   == MulDiv(ag, ag, 10^8)
        hh   == MulDiv(ah, ah, 10^8)
        gh   == MulDiv(ag, ah, 10^8)
        ggh  == MulDiv(gg, ah, 10^8)
        ghh  == MulDiv(ag, hh, 10^8)
        gghh == MulDiv(gg, hh, 10^8)
    IN  10 * ( - 4237900
               + sg * MulDivP10(204901523, ag, 9)
               + sh * MulDivP10(1014333127, ah, 9)
               - sg * sh * MulDivP10(22475541, gh, 7)
               - MulDivP10(683783, gg, 7)
               - MulDivP10(5481717, hh, 7)
               + sh * MulDivP10(122874, ggh, 5)
               + sg * MulDivP10(85282, ghh, 5)
               - MulDivP10(199, gghh, 3) )

\* The three conditions of heat_index (lines 277, 280 and 283).
LowHumidityBand(RH, tF) ==
    RH < 13 * Scale /\ tF > 80 * Scale /\ tF < 112 * Scale

\* A high-humidity band with no lower end.
OpenHumidityBand(RH, tF) == RH > 85 * Scale /\ tF < 87 * Scale

HighHumidityBand(RH, tF) ==
    RH > 85 * Scale /\ tF > 80 * Scale /\ tF < 87 * Scale

LowTemperatureBand(RH, tF) == tF < 80 * Scale

\* adj of line 278; the square root is real inside the band.
LowHumidityAdj(RH, tF) ==
    FMul(FDiv(13 * Scale - RH, 4 * Scale),
         MathSqrt(FDiv(17 * Scale - Abs(tF - 95 * Scale), 17 * Scale)).v)

\* adj of line 281.
HighHumidityAdj(RH, tF) ==
    FMul(FDiv(RH - 85 * Scale, 10 * Scale), FDiv(87 * Scale - tF, 5 * Scale))

\* HI of line 284.
SimpleHI(RH, tF) ==
    FMul(500000,
         tF + 61 * Scale + FMul(tF - 68 * Scale, 1200000) + FMul(RH, 94000))

\* heat_index(t, RH): regime names the branch of lines 277 to 284 taken.
heat_index(t, RH) ==
    LET tF == conv_C2F(t)
        HI == Regression(tF, RH)
    IN  IF LowHumidityBand(RH, tF)
        THEN [st |-> "ok", regime |-> "low_humidity",
              v |-> conv_F2C(HI - LowHumidityAdj(RH, tF))]
        ELSE IF HighHumidityBand(RH, tF)
        THEN [st |-> "ok", regime |-> "high_humidity",
              v |-> conv_F2C(HI + HighHumidityAdj(RH, tF))]
        ELSE IF LowTemperatureBand(RH, tF)
        THEN [st |-> "ok", regime |-> "simple",
              v |-> conv_F2C(SimpleHI(RH, tF))]
        ELSE [st |-> "ok", regime |-> "regression",
              v |-> conv_F2C(HI)]

-----------------------------------------------------------------------------
(* Calls of the closed-form functions: one call, from the idle state.      *)

TdTc == {-244000000, -243500000, -95000000, 0, 20000000, 20100000, 60000000}

TdRH == {-1000000, 0, 5000000, 50000000, 50300000, 100000000}

DewTc == {-243120000, -40000000, 0, 25000000, 50000000}

DewRH == {-5000000, 0, 10000000, 60000000, 100000000}

MixT == {0, 25000000, 30000000}

MixRH == {0, 60000000, 80000000}

\* The pressures mixing_ratio is called with at (t, RH): three fixed ones,
\* and e itself, half of it and twice it.
MixP(t, RH) ==
    LET e == VaporPressure(t, RH).v
    IN  {0, 980000000, 1013250000, e, e \div 2, 2 * e}

\* 26.666667 C is 80 F and 30.555556 C is 87 F in the arithmetic of the model.
HeatT == {20000000, 25000000, 26666666, 26666667, 26700000, 28000000,
          30000000, 30555556, 31000000, 35000000, 40000000, 44444444,
          44444445, 45000000}

HeatRH == {0, 5000000, 12900000, 13000000, 50000000, 85000000, 85100000,
           90000000, 100000000}

TripX == {-40000000, -12500000, 0, 10000000, 12500000, 13000000, 21111128,
          37000000, 100000000, 1000000000}

Called(f, args, r) ==
    /\ pc = "idle"
    /\ call = NoCall
    /\ call' = [fn |-> f, a |-> args]
    /\ ret' = r
    /\ UNCHANGED solverVars

CallTd == \E Tc \in TdTc, RH \in TdRH : Called("Td", <<Tc, RH>>, Td(Tc, RH))

CallDew == \E Tc \in DewTc, RH \in DewRH : Called("dew", <<Tc, RH>>, dew(Tc, RH))

CallMixingRatio ==
    \E t \in MixT, RH \in MixRH :
        \E p \in MixP(t, RH) :
            Called("mixing_ratio", <<t, RH, p>>, mixing_ratio(t, RH, p))

CallHeatIndex ==
    \E t \in HeatT, RH \in HeatRH :
        Called("heat_index", <<t, RH>>, heat_index(t, RH))

\* conv_F2C(conv_C2F(x))
CallRoundTrip ==
    \E x \in TripX :
        Called("round_trip", <<x>>, [st |-> "ok", v |-> conv_F2C(conv_C2F(x))])

FormulaNext ==
    \/ CallTd
    \/ CallDew
    \/ CallMixingRatio
    \/ CallHeatIndex
    \/ CallRoundTrip

FormulaSpec == Init /\ [][FormulaNext]_vars

-----------------------------------------------------------------------------
(* Properties of the wet-bulb solver.                                      *)

\* The inputs the solver is specified for: Tc > -243.5, 0 <= RH <= 100, P > 0.
ValidInput ==
    Ctemp > -243500000 /\ rh >= 0 /\ rh <= 100 * Scale /\ MBpressure > 0

\* The residual E2 - Eguess of the running call at the guess Tw.
ResidualAt(Tw) == E2 - Eguess(Tw, Ctemp, MBpressure).v

\* C1: for P > 0 the wet bulb returned is at most the dry bulb Tc when
\* RH < 100, and at RH = 100 it is Tc within the tolerance of the solver
\* (its residual, which is zero at Tc, is within Tolerance).
C1_WetBulbAtMostDryBulb ==
    (pc = "done" /\ MBpressure > 0) =>
        /\ ClampRH(rh) < 100 * Scale => Twguess <= Ctemp
        /\ ClampRH(rh) = 100 * Scale => Abs(ResidualAt(Twguess)) <= Tolerance

\* C2: for every valid input the loop of calc_wb eventually exits, with a
\* last residual within the tolerance.
C2_LoopExits ==
    (pc = "loop" /\ ValidInput) ~> (pc = "done" /\ Abs(Edifference) <= Tolerance)

\* C3: every RH <= 0 is treated as RH = 0: the solver runs with E2 = 0, no
\* error is raised, the loop performs at least one iteration, and the value
\* returned is that of calc_sWB(Tc, 0, P).
C3_NonPositiveRHIsZero ==
    (pc # "idle" /\ rh <= 0) =>
        /\ pc # "raised"
        /\ E2 = 0
        /\ pc = "done" =>
              /\ hist.iters >= 1
              /\ WetBulb(Ctemp, 0, MBpressure) = <<"ok", Twguess>>

\* C8: an iteration that steps divides incr by 10 exactly when the sign of
\* the residual differs from previoussign, leaves previoussign equal to that
\* sign, and moves Twguess by the new incr times the new previoussign; incr
\* never increases, and after k sign changes it is 10 / 10^k.
C8_StepDecay ==
    /\ [][(pc = "loop" /\ count' = count + 1) =>
            LET cursign == Cursign(Edifference')
            IN  /\ incr' = IF cursign # previoussign THEN incr \div 10 ELSE incr
                /\ incr' <= incr
                /\ previoussign' = cursign
                /\ Twguess' = Twguess + incr' * previoussign']_vars
    /\ [](pc \in {"loop", "done"} => incr * 10^hist.flips = 10 * Scale)

\* A third sign change has left incr at 0.01.
C8_Witness == pc = "loop" /\ hist.flips = 3 /\ incr = Scale \div 100

\* C9: an iteration without a sign change repeats the step of the iteration
\* before it; once a sign change on a second or later iteration has put the
\* root between two consecutive guesses lo and hi, every later guess stays in
\* [lo, hi], at most 10 steps are taken before the next sign change or the
\* exit, and each such sign change makes the bracket 10 times narrower
\* (hi - lo is 10 * incr).
C9_Bracket ==
    /\ [][(pc = "loop" /\ count' = count + 1 /\ hist.iters >= 1
             /\ Cursign(Edifference') = previoussign) =>
            Twguess' - Twguess = Twguess - hist.evalAt]_vars
    /\ []((pc \in {"loop", "done"} /\ hist.bracketed) =>
            /\ hist.lo <= Twguess
            /\ Twguess <= hist.hi
            /\ hist.run <= 10
            /\ hist.hi - hist.lo = 10 * incr)

\* The tenth step inside a bracket has reached its far end.
C9_Witness ==
    /\ pc = "loop"
    /\ hist.bracketed
    /\ hist.flips >= 2
    /\ hist.run = 10
    /\ Twguess \in {hist.lo, hist.hi}

\* C10: calc_wb returns the guess at which the residual was last evaluated,
\* and the residual at the returned guess is below the tolerance, also when
\* the loop is left by its while test.
C10_ReturnedResidual ==
    pc = "done" =>
        /\ hist.evalAt = Twguess
        /\ Abs(ResidualAt(Twguess)) < Tolerance

-----------------------------------------------------------------------------
(* Properties of the closed-form functions.                                *)

\* C4: Td is total: it returns [es, V, Td] for every input and raises
\* nothing, with Td = NaN exactly when V = 0 and the dew point formula of V
\* otherwise.
C4_TdTotal ==
    call.fn = "Td" =>
        /\ ret.st = "ok"
        /\ ret.nan <=> ret.V = 0
        /\ ret.V # 0 => ret.Td = DewOfV(ret.V).v

\* The degenerate calls: dew with RH <= 0, mixing_ratio with p <= e.
DegenerateCall ==
    \/ call.fn = "dew" /\ call.a[2] <= 0
    \/ /\ call.fn = "mixing_ratio"
       /\ VaporPressure(call.a[1], call.a[2]).st = "ok"
       /\ call.a[3] <= VaporPressure(call.a[1], call.a[2]).v

ReversedOrder(t, RH) ==
    LET tF == conv_C2F(t)
        HI == Regression(tF, RH)
    IN  IF LowTemperatureBand(RH, tF)
        THEN [st |-> "ok", regime |-> "simple",
              v |-> conv_F2C(SimpleHI(RH, tF))]
        ELSE IF HighHumidityBand(RH, tF)
        THEN [st |-> "ok", regime |-> "high_humidity",
              v |-> conv_F2C(HI + HighHumidityAdj(RH, tF))]
        ELSE IF LowHumidityBand(RH, tF)
        THEN [st |-> "ok", regime |-> "low_humidity",
              v |-> conv_F2C(HI - LowHumidityAdj(RH, tF))]
        ELSE [st |-> "ok", regime |-> "regression",
              v |-> conv_F2C(HI)]

\* C6: no two of the three conditions of heat_index hold together, the
\* branch taken is the one whose condition holds (the plain regression when
\* none does), the order of the tests does not matter, and tF = 80 exactly
\* gives the regression without adjustment.
C6_RegimesExclusive ==
    call.fn = "heat_index" =>
        LET RH == call.a[2]
            tF == conv_C2F(call.a[1])
            lh == LowHumidityBand(RH, tF)
            hh == HighHumidityBand(RH, tF)
            lt == LowTemperatureBand(RH, tF)
        IN  /\ ~(lh /\ hh) /\ ~(lh /\ lt) /\ ~(hh /\ lt)
            /\ ret.regime = "low_humidity" <=> lh
            /\ ret.regime = "high_humidity" <=> hh
            /\ ret.regime = "simple" <=> lt
            /\ ret.regime = "regression" <=> ~(lh \/ hh \/ lt)
            /\ ret = ReversedOrder(call.a[1], RH)
            /\ tF = 80 * Scale =>
                  /\ ret.regime = "regression"
                  /\ ret.v = conv_F2C(Regression(tF, RH))

\* heat_index called at tF = 80 exactly, in humid air, has returned the
\* regression.
C6_Witness ==
    /\ call.fn = "heat_index"
    /\ conv_C2F(call.a[1]) = 80 * Scale
    /\ call.a[2] > 85 * Scale
    /\ ret.regime = "regression"

\* C7, as stated: conv_F2C(conv_C2F(x)) is within 1e-5 of x for every x.
C7_RoundTripWithin1e5 ==
    call.fn = "round_trip" => Abs(ret.v - call.a[1]) <= Scale \div 10^5

\* C7, as the code has it: 1.8 * 0.555556 = 1.0000008, so the round trip
\* is x + 8e-7 * x up to rounding; it is within 1e-5 of x for |x| < 12.5.
C7_RoundTripDrift ==
    call.fn = "round_trip" =>
        LET x     == call.a[1]
            drift == Sgn(x) * MulDiv(Abs(x), 8, 10^7)
        IN  /\ Abs(ret.v - x - drift) <= 2
            /\ Abs(x) < 12500000 => Abs(ret.v - x) <= Scale \div 10^5

\* The round trip of 100 C has returned 100.00008 C.
C7_Witness ==
    /\ call.fn = "round_trip"
    /\ call.a[1] = 100 * Scale
    /\ ret.v = 100 * Scale + 80

=============================================================================
